---- MODULE Spec2Model ----
(***************************************************************************)
(* The sidecar of snmp_exporter: sidecarService (sidecar/sidecar.go), its  *)
(* configFileUtil (sidecar/config_file.go) and the file primitives of      *)
(* sidecar/utils/fs/util.go, as a state machine.                           *)
(*                                                                         *)
(* Go strings are sequences of one-character strings, so that              *)
(* strings.TrimSpace, prefixes of a text and the ".del" suffix are         *)
(* computed and not assumed.  A Go error value is a record                 *)
(* [type, msgs]; nil is NilErr.  time.Time is a natural number, the zero   *)
(* time.Time{} is 0.                                                       *)
(*                                                                         *)
(* Every caller (an HTTP handler goroutine) runs one call at a time; a     *)
(* call is a sequence of steps, one per statement that blocks, touches the *)
(* file system or writes a field of the service.  The goroutines have no   *)
(* identity the program reads, so they are kept as a bag of call frames.   *)
(***************************************************************************)
EXTENDS Integers, Sequences, FiniteSets, Bags, TLC

\* ------------------------------------------------------------------ bounds
NumCallers == 2        \* concurrent callers of the service
MaxClock == 2          \* readings of time.Now() that the model follows
MaxIoFaults == 2       \* file-system calls that fail with an I/O error
MaxDirCalls == 2       \* calls of the file utilities made on one directory

\* --------------------------------------------------------------- strings
IsSpace(ch) == ch = " "

RECURSIVE TrimLeft(_)
TrimLeft(s) == IF s # <<>> /\ IsSpace(Head(s)) THEN TrimLeft(Tail(s)) ELSE s

RECURSIVE TrimRight(_)
TrimRight(s) ==
    IF s # <<>> /\ IsSpace(s[Len(s)]) THEN TrimRight(SubSeq(s, 1, Len(s) - 1)) ELSE s

TrimSpace(s) == TrimRight(TrimLeft(s))

\* ---------------------------------------------------------------- errors
NilErr == [type |-> "nil", msgs |-> <<>>]

NewError(msg) == [type |-> "error", msgs |-> <<msg>>]

\* errors.Wrapf: nil stays nil, otherwise the message is put in front.
Wrapf(err, msg) ==
    IF err = NilErr THEN NilErr ELSE [type |-> "error", msgs |-> <<msg>> \o err.msgs]

ValidateError(msg) == [type |-> "ValidateError", msgs |-> <<msg>>]

ValidateErrors(ves) == [type |-> "ValidateErrors", msgs |-> ves]

\* Faulty variant: no error is taken for that of a missing file
IsNotExistNever(err) == FALSE

\* os.IsNotExist
IsNotExist(err) == err = NewError("ENOENT")

\* ----------------------------------------------------------- file system
\* A disk maps a path to what is there.
NoFile == [exists |-> FALSE, data |-> <<>>]

File(data) == [exists |-> TRUE, data |-> data]

backupSuffix == <<".del">>

\* os.Rename: atomic; a missing source is ENOENT; ioErr is any other failure
\* (permissions, cross-device, ...), which changes nothing.
Rename(disk, old, new, ioErr) ==
    IF ioErr THEN [disk |-> disk, err |-> NewError("EIO")]
    ELSE IF ~disk[old].exists THEN [disk |-> disk, err |-> NewError("ENOENT")]
    ELSE [disk |-> [disk EXCEPT ![new] = disk[old], ![old] = NoFile], err |-> NilErr]

\* os.Remove
Remove(disk, name, ioErr) ==
    IF ioErr THEN [disk |-> disk, err |-> NewError("EIO")]
    ELSE IF ~disk[name].exists THEN [disk |-> disk, err |-> NewError("ENOENT")]
    ELSE [disk |-> [disk EXCEPT ![name] = NoFile], err |-> NilErr]

\* os.WriteFile: create or truncate, write, close.  On failure (ioErr) either
\* the open failed (written = -1, nothing changes) or the first `written`
\* characters are in the file.
OsWriteFile(disk, name, data, ioErr, written) ==
    IF ~ioErr THEN [disk |-> [disk EXCEPT ![name] = File(data)], err |-> NilErr]
    ELSE IF written < 0 THEN [disk |-> disk, err |-> NewError("EIO")]
    ELSE [disk |-> [disk EXCEPT ![name] = File(SubSeq(data, 1, written))],
          err |-> NewError("EIO")]

RestoreFile(disk, originFile, ioErr) ==
    LET backupFile == originFile \o backupSuffix
        r == Rename(disk, backupFile, originFile, ioErr)
    IN  IF IsNotExist(r.err) THEN [disk |-> r.disk, err |-> NilErr]
        ELSE [disk |-> r.disk, err |-> Wrapf(r.err, "Restore file failed")]

CleanBackupFile(disk, originFile, ioErr) ==
    LET backupFile == originFile \o backupSuffix
        r == Remove(disk, backupFile, ioErr)
    IN  IF IsNotExist(r.err) THEN [disk |-> r.disk, err |-> NilErr]
        ELSE [disk |-> r.disk, err |-> Wrapf(r.err, "Remove backup file failed")]

BackupFile(disk, originFile, ioErr) ==
    LET backupFile == originFile \o backupSuffix
        r == Rename(disk, originFile, backupFile, ioErr)
    IN  IF IsNotExist(r.err) THEN [disk |-> r.disk, err |-> NilErr]
        ELSE [disk |-> r.disk, err |-> Wrapf(r.err, "Move file failed")]

\* configFileUtil
backupConfigFile(disk, cf, ioErr) == BackupFile(disk, cf, ioErr)

cleanBackupConfigFile(disk, cf, ioErr) == CleanBackupFile(disk, cf, ioErr)

restoreConfigFile(disk, cf, ioErr) == RestoreFile(disk, cf, ioErr)

writeConfigFile(disk, cf, configYaml, ioErr, written) ==
    LET r == OsWriteFile(disk, cf, configYaml, ioErr, written)
    IN  [disk |-> r.disk, err |-> Wrapf(r.err, "Write config file failed")]

\* ------------------------------------------------- files of a directory
\* A file name is a sequence of characters in which the suffix ".del" is one
\* item.  A pattern is a file name in which "*" stands for any sequence of
\* characters and "[" opens a character class that is never closed.

\* filepath.ErrBadPattern
ErrBadPattern == NewError("syntax error in pattern")

\* filepath.Match reports ErrBadPattern for a malformed pattern
BadPattern(pattern) == \E i \in 1..Len(pattern) : pattern[i] = "["

\* filepath.Match
RECURSIVE Match(_, _)
Match(pattern, name) ==
    IF pattern = <<>> THEN name = <<>>
    ELSE IF Head(pattern) = "*"
    THEN \E k \in 0..Len(name) : Match(Tail(pattern), SubSeq(name, k + 1, Len(name)))
    ELSE name # <<>> /\ Head(name) = Head(pattern) /\ Match(Tail(pattern), Tail(name))

\* the order of the characters: "." comes before the letters
CharRank(ch) == IF ch = ".del" THEN 0 ELSE IF ch = "a" THEN 1 ELSE 2

\* the order of strings, in which filepath.Glob returns the names
RECURSIVE NameLess(_, _)
NameLess(a, b) ==
    IF a = <<>> THEN b # <<>>
    ELSE IF b = <<>> THEN FALSE
    ELSE IF Head(a) # Head(b) THEN CharRank(Head(a)) < CharRank(Head(b))
    ELSE NameLess(Tail(a), Tail(b))

RECURSIVE SortNames(_)
SortNames(S) ==
    IF S = {} THEN <<>>
    ELSE LET first == CHOOSE n \in S : \A m \in S \ {n} : NameLess(n, m)
         IN  <<first>> \o SortNames(S \ {first})

\* filepath.Glob(filepath.Join(dir, pattern)): the names in the directory
\* that match, sorted; the only error is that of a malformed pattern.
Glob(d, pattern) ==
    IF BadPattern(pattern) THEN [names |-> <<>>, err |-> ErrBadPattern]
    ELSE [names |-> SortNames({n \in DOMAIN d : d[n].exists /\ Match(pattern, n)}),
          err |-> NilErr]

\* Faulty variant: the suffix is not taken off
TrimSuffixKept(name) == name

\* strings.TrimSuffix(name, backupSuffix)
TrimSuffix(name) ==
    IF name # <<>> /\ <<name[Len(name)]>> = backupSuffix
    THEN SubSeq(name, 1, Len(name) - 1)
    ELSE name

\* fsutil.ErrorList, and what the three functions below return of it
ErrorList(errs) == [type |-> "ErrorList", msgs |-> errs]

ErrListOrNil(errList) == IF Len(errList) = 0 THEN NilErr ELSE ErrorList(errList)

\* The loops of the three functions; the system call made for a name of the
\* set bad fails with an I/O error.
RECURSIVE RestoreEach(_, _, _, _)
RestoreEach(d, existBackupFiles, bad, errList) ==
    IF existBackupFiles = <<>> THEN [disk |-> d, errList |-> errList]
    ELSE LET backupFile == Head(existBackupFiles)
             r == RestoreFile(d, TrimSuffix(backupFile), backupFile \in bad)
         IN  RestoreEach(r.disk, Tail(existBackupFiles), bad,
                         IF r.err # NilErr THEN Append(errList, r.err) ELSE errList)

RECURSIVE CleanBackupEach(_, _, _, _)
CleanBackupEach(d, existBackupFiles, bad, errList) ==
    IF existBackupFiles = <<>> THEN [disk |-> d, errList |-> errList]
    ELSE LET backupFile == Head(existBackupFiles)
             r == CleanBackupFile(d, TrimSuffix(backupFile), backupFile \in bad)
         IN  CleanBackupEach(r.disk, Tail(existBackupFiles), bad,
                             IF r.err # NilErr THEN Append(errList, r.err) ELSE errList)

RECURSIVE BackupEach(_, _, _, _)
BackupEach(d, existFiles, bad, errList) ==
    IF existFiles = <<>> THEN [disk |-> d, errList |-> errList]
    ELSE LET file == Head(existFiles)
             r == BackupFile(d, file, file \in bad)
         IN  BackupEach(r.disk, Tail(existFiles), bad,
                        IF r.err # NilErr THEN Append(errList, r.err) ELSE errList)

RestoreDirFiles(d, originFilePattern, bad) ==
    LET g == Glob(d, originFilePattern \o backupSuffix)
        r == RestoreEach(d, g.names, bad, <<>>)
    IN  IF g.err # NilErr THEN [disk |-> d, err |-> Wrapf(g.err, "Search files failed")]
        ELSE [disk |-> r.disk, err |-> ErrListOrNil(r.errList)]

CleanBackupDirFiles(d, originFilePattern, bad) ==
    LET g == Glob(d, originFilePattern \o backupSuffix)
        r == CleanBackupEach(d, g.names, bad, <<>>)
    IN  IF g.err # NilErr THEN [disk |-> d, err |-> Wrapf(g.err, "Search files failed")]
        ELSE [disk |-> r.disk, err |-> ErrListOrNil(r.errList)]

BackupDirFiles(d, filePattern, bad) ==
    LET g == Glob(d, filePattern)
        r == BackupEach(d, g.names, bad, <<>>)
    IN  IF g.err # NilErr THEN [disk |-> d, err |-> Wrapf(g.err, "Search files failed")]
        ELSE [disk |-> r.disk, err |-> ErrListOrNil(r.errList)]

\* ---------------------------------------------------------------- inputs
\* The path given to NewSidecarSvc, and the two paths the service touches.
CfgPath == <<"c">>

ConfigFiles == {<<>>, <<" ">>, CfgPath}

Paths == {CfgPath, CfgPath \o backupSuffix}

\* What the config file holds before the first call.
OldYaml == <<"o">>

\* zone ids and yaml texts a caller may submit: empty, blank, padded with a
\* blank, plain; "!" stands for a line the yaml parser rejects.
ZoneIds == {<<>>, <<" ">>, <<" ", "A">>, <<"B">>}

Yamls == {<<>>, <<" ">>, <<" ", "k">>, <<"!">>}

\* The directory the file utilities work on: the names of the files it may
\* hold before the first call, with and without a backup suffix, and every
\* name a later backup can give them.
BaseNames == {<<"a">>, <<"b">>}

RECURSIVE WithSuffixes(_, _)
WithSuffixes(name, k) == IF k = 0 THEN name ELSE WithSuffixes(name, k - 1) \o backupSuffix

InitialNames == {WithSuffixes(n, k) : n \in BaseNames, k \in 0..1}

DirNames == {WithSuffixes(n, k) : n \in BaseNames, k \in 0..(MaxDirCalls + 1)}

\* the file patterns given to the directory functions: "*", "a", "a*",
\* "*.del" and the malformed "["
Patterns == {<<"*">>, <<"a">>, <<"a", "*">>, <<"*", ".del">>, <<"[">>}

\* ------------------------------------------------------------- the command
\* yaml.UnmarshalStrict into config.Config: the parser is an external
\* collaborator; a text parses unless it holds a rejected line.  A blank text
\* is an empty document and parses.
ParseConfig(cmd) ==
    IF \E i \in 1..Len(cmd.Yaml) : cmd.Yaml[i] = "!"
    THEN NewError("error parsing config file")
    ELSE NilErr

\* Faulty variant: the zone id is tested for emptiness without being trimmed
ValidateUntrimmed(cmd) ==
    LET v1 == IF cmd.ZoneId = <<>> THEN <<"ZoneId must not be blank">> ELSE <<>>
        v2 == IF TrimSpace(cmd.Yaml) = <<>> THEN <<"Yaml must not be blank">> ELSE <<>>
        v3 == IF ParseConfig(cmd) # NilErr THEN <<"Invalid Yaml">> ELSE <<>>
    IN  [cmd |-> cmd, ves |-> v1 \o v2 \o v3]

\* Faulty variant: the first violation found is the only one reported
ValidateFirstOnly(cmd) ==
    LET zoneId == TrimSpace(cmd.ZoneId)
        trimmed == [cmd EXCEPT !.ZoneId = zoneId]
    IN  IF zoneId = <<>> THEN [cmd |-> trimmed, ves |-> <<"ZoneId must not be blank">>]
        ELSE IF TrimSpace(cmd.Yaml) = <<>>
        THEN [cmd |-> trimmed, ves |-> <<"Yaml must not be blank">>]
        ELSE IF ParseConfig(cmd) # NilErr THEN [cmd |-> trimmed, ves |-> <<"Invalid Yaml">>]
        ELSE [cmd |-> trimmed, ves |-> <<>>]

\* UpdateConfigCmd.Validate: trims cmd.ZoneId in place and collects the
\* violations.
Validate(cmd) ==
    LET zoneId == TrimSpace(cmd.ZoneId)
        v1 == IF zoneId = <<>> THEN <<"ZoneId must not be blank">> ELSE <<>>
        v2 == IF TrimSpace(cmd.Yaml) = <<>> THEN <<"Yaml must not be blank">> ELSE <<>>
        v3 == IF ParseConfig(cmd) # NilErr THEN <<"Invalid Yaml">> ELSE <<>>
    IN  [cmd |-> [cmd EXCEPT !.ZoneId = zoneId], ves |-> v1 \o v2 \o v3]

\* ------------------------------------------------------------------ state
VARIABLES
    configFile,     \* sidecarService.configFile
    disk,           \* the files at configFile and configFile + ".del"
    boundZoneId,    \* sidecarService.boundZoneId
    lastUpdateTs,   \* sidecarService.lastUpdateTs
    runtimeLock,    \* sidecarService.runtimeLock: TRUE when locked
    clock,          \* the last reading of time.Now()
    procs,          \* the callers: a bag of call frames
    rc,             \* reply channels the collaborator has received and not answered
    ioFaults,       \* file-system calls that have failed with an I/O error
    listening,      \* a collaborator goroutine receives from reloadCh
    dir,            \* the files of the directory the file utilities are called on
    pattern,        \* the file pattern the directory functions are called with
    log             \* the calls of the file utilities made so far, oldest first

vars == <<configFile, disk, boundZoneId, lastUpdateTs, runtimeLock, clock, procs, rc,
          ioFaults, listening, dir, pattern, log>>

sidecarVars == <<configFile, disk, boundZoneId, lastUpdateTs, runtimeLock, clock, procs, rc,
                 ioFaults, listening>>

fsutilVars == <<dir, pattern, log>>

brand == "snmp-exporter-mod"

Runtimeinfo(zoneId, ts) == [Brand |-> brand, ZoneId |-> zoneId, LastUpdateTs |-> ts]

\* history kept in a frame: the committed state when the call took the lock
NoSnapshot ==
    [taken |-> FALSE, disk |-> [p \in Paths |-> NoFile], boundZoneId |-> <<>>,
     lastUpdateTs |-> 0]

Snapshot ==
    [taken |-> TRUE, disk |-> disk, boundZoneId |-> boundZoneId,
     lastUpdateTs |-> lastUpdateTs]

\* A caller that is in no call.  A frame holds the call's arguments as they
\* were submitted (history), the command as the call holds it (Validate
\* rewrites cmd.ZoneId), its locals, and what it returns.
Idle ==
    [pc |-> "idle", op |-> "none",
     submitted |-> [ZoneId |-> <<>>, Yaml |-> <<>>],
     cmd |-> [ZoneId |-> <<>>, Yaml |-> <<>>],
     ctxDone |-> FALSE, reloadErr |-> NilErr, reply |-> "none", warned |-> FALSE,
     ret |-> NilErr,
     info |-> Runtimeinfo(<<>>, 0), pre |-> NoSnapshot]

NewCall(op, zoneId, yaml) ==
    [Idle EXCEPT !.op = op,
                 !.submitted = [ZoneId |-> zoneId, Yaml |-> yaml],
                 !.cmd = [ZoneId |-> zoneId, Yaml |-> yaml]]

Init ==
    /\ configFile \in ConfigFiles
    /\ disk \in {[p \in Paths |-> IF p = CfgPath THEN f ELSE NoFile] :
                    f \in {NoFile, File(OldYaml)}}
    /\ boundZoneId = <<>>
    /\ lastUpdateTs = 0
    /\ runtimeLock = FALSE
    /\ clock = 0
    /\ procs = [p \in {Idle} |-> NumCallers]
    /\ rc = 0
    /\ ioFaults = 0
    /\ listening \in BOOLEAN
    /\ dir = [n \in DirNames |-> NoFile]
    /\ pattern = <<>>
    /\ log = <<>>

\* ---------------------------------------------------------------- helpers
Frames == BagToSet(procs)

\* the frame p goes on as q
Becomes(p, q) == procs' = (procs (-) SetToBag({p})) (+) SetToBag({q})

\* A call that has returned is looked at by its caller before anything else
\* happens: the record of a returned call is history, no step reads it.
Observing == \E p \in Frames : p.pc = "done"

At(p, label) == ~Observing /\ p.pc = label

\* update calls under way: each of them may still read the clock
UpdatesUnderWay ==
    LET U == {p \in Frames : p.op = "update" /\ p.pc # "done"}
    IN  BagCardinality([p \in U |-> procs[p]])

\* Faulty variant: every zone id passes
assertZoneIdMatchAlways(bound, zoneId) == NilErr

\* Faulty variant: an unbound service is treated as bound to ""
assertZoneIdMatchStrict(bound, zoneId) ==
    IF bound # zoneId THEN ValidateError("bound zoneId mismatches command zoneId")
    ELSE NilErr

assertZoneIdMatch(bound, zoneId) ==
    IF bound = <<>> THEN NilErr
    ELSE IF bound # zoneId THEN ValidateError("bound zoneId mismatches command zoneId")
    ELSE NilErr

\* Whether the next file-system call may fail with an I/O error, and the count.
IoOutcomes == IF ioFaults < MaxIoFaults THEN BOOLEAN ELSE {FALSE}

Fault(ioErr) == ioFaults' = IF ioErr THEN ioFaults + 1 ELSE ioFaults

\* Faulty variant: the deferred function commits whatever reloadErr is
DeferredAlwaysCommit(reloadErr) == "setTs"

\* The deferred function's branch: if reloadErr == nil { commit } else { restore }
Deferred(reloadErr) == IF reloadErr = NilErr THEN "setTs" ELSE "restore"

\* Faulty variant: the error of the clean-up becomes what the call returns
printErrReturned(p, err) ==
    [p EXCEPT !.warned = @ \/ (err # NilErr), !.ret = IF err # NilErr THEN err ELSE @]

\* printErr: a non-nil error is logged as a warning
printErr(p, err) == [p EXCEPT !.warned = @ \/ (err # NilErr)]

\* --------------------------------------------------------- the call starts
\* UpdateConfigReload up to runtimeLock.Lock(): the path check and Validate.
\* Faulty variant: the command is validated before the config path is checked
UpdateConfigReloadBeginValidated(zoneId, yaml) ==
    LET v == Validate([ZoneId |-> zoneId, Yaml |-> yaml])
        started == [NewCall("update", zoneId, yaml) EXCEPT !.cmd = v.cmd]
    IN  IF Len(v.ves) > 0
        THEN [started EXCEPT !.ret = ValidateErrors(v.ves), !.pc = "done"]
        ELSE IF TrimSpace(configFile) = <<>>
        THEN [started EXCEPT
                 !.ret = NewError("--custom.config.file not provided"), !.pc = "done"]
        ELSE [started EXCEPT !.pc = "lock"]

UpdateConfigReloadBegin(zoneId, yaml) ==
    LET v == Validate([ZoneId |-> zoneId, Yaml |-> yaml])
        started == [NewCall("update", zoneId, yaml) EXCEPT !.cmd = v.cmd]
    IN  IF TrimSpace(configFile) = <<>>
        THEN [NewCall("update", zoneId, yaml) EXCEPT
                 !.ret = NewError("--custom.config.file not provided"), !.pc = "done"]
        ELSE IF Len(v.ves) > 0
        THEN [started EXCEPT !.ret = ValidateErrors(v.ves), !.pc = "done"]
        ELSE [started EXCEPT !.pc = "lock"]

UpdateConfigReload(p) ==
    /\ At(p, "idle")
    /\ clock + UpdatesUnderWay < MaxClock
    /\ \E zoneId \in ZoneIds, yaml \in Yamls :
          Becomes(p, UpdateConfigReloadBegin(zoneId, yaml))
    /\ UNCHANGED <<fsutilVars, listening, configFile, disk, boundZoneId, lastUpdateTs, runtimeLock, clock, rc,
                   ioFaults>>

\* ResetConfigReload up to runtimeLock.Lock(): the path check only.
ResetConfigReloadBegin(zoneId) ==
    IF TrimSpace(configFile) = <<>>
    THEN [NewCall("reset", zoneId, <<>>) EXCEPT
             !.ret = NewError("--custom.config.file not provided"), !.pc = "done"]
    ELSE [NewCall("reset", zoneId, <<>>) EXCEPT !.pc = "lock"]

ResetConfigReload(p) ==
    /\ At(p, "idle")
    /\ \E zoneId \in ZoneIds : Becomes(p, ResetConfigReloadBegin(zoneId))
    /\ UNCHANGED <<fsutilVars, listening, configFile, disk, boundZoneId, lastUpdateTs, runtimeLock, clock, rc,
                   ioFaults>>

\* Faulty variant: the copy is made without taking the mutex
GetRuntimeInfoUnlocked(p) ==
    /\ At(p, "idle")
    /\ Becomes(p, [NewCall("get", <<>>, <<>>) EXCEPT !.pc = "read"])
    /\ UNCHANGED <<fsutilVars, listening, configFile, disk, boundZoneId, lastUpdateTs, runtimeLock, clock,
                   rc, ioFaults>>

GetRuntimeInfo(p) ==
    /\ At(p, "idle")
    /\ Becomes(p, [NewCall("get", <<>>, <<>>) EXCEPT !.pc = "lock"])
    /\ UNCHANGED <<fsutilVars, listening, configFile, disk, boundZoneId, lastUpdateTs, runtimeLock, clock, rc,
                   ioFaults>>

\* ------------------------------------------------------- under runtimeLock
\* s.runtimeLock.Lock(): blocks while the mutex is locked
LockStep(p) ==
    [p EXCEPT !.pc = IF p.op = "get" THEN "read" ELSE "assert",
              !.pre = IF p.op = "get" THEN NoSnapshot ELSE Snapshot]

\* Faulty variant: Lock() returns although the mutex is locked
LockUnguarded(p) ==
    /\ At(p, "lock")
    /\ runtimeLock' = TRUE
    /\ Becomes(p, LockStep(p))
    /\ UNCHANGED <<fsutilVars, listening, configFile, disk, boundZoneId, lastUpdateTs, clock, rc, ioFaults>>

Lock(p) ==
    /\ At(p, "lock")
    /\ runtimeLock = FALSE
    /\ runtimeLock' = TRUE
    /\ Becomes(p, LockStep(p))
    /\ UNCHANGED <<fsutilVars, listening, configFile, disk, boundZoneId, lastUpdateTs, clock, rc, ioFaults>>

\* GetRuntimeInfo: the copy made under the lock
ReadRuntimeInfo(p) ==
    /\ At(p, "read")
    /\ Becomes(p, [p EXCEPT !.info = Runtimeinfo(boundZoneId, lastUpdateTs),
                            !.pc = "unlock"])
    /\ UNCHANGED <<fsutilVars, listening, configFile, disk, boundZoneId, lastUpdateTs, runtimeLock, clock, rc,
                   ioFaults>>

\* Faulty variant: the error of assertZoneIdMatch is dropped
UpdateAssertZoneIgnored(p) == [p EXCEPT !.pc = "backup"]

\* UpdateConfigReload: assertZoneIdMatch(cmd.ZoneId); on a mismatch the call
\* returns before the commit-or-rollback defer is registered.
UpdateAssertZone(p) ==
    LET err == assertZoneIdMatch(boundZoneId, p.cmd.ZoneId)
    IN  IF err # NilErr
        THEN [p EXCEPT !.ret = err, !.pc = "unlock"]
        ELSE [p EXCEPT !.pc = "backup"]

\* Faulty variant: a reset goes on whatever its zone id is
ResetAssertZoneIgnored(p) == [p EXCEPT !.cmd.ZoneId = TrimSpace(@), !.pc = "backup"]

\* ResetConfigReload: the zoneId is trimmed and checked under the lock.
ResetAssertZone(p) ==
    LET zoneId == TrimSpace(p.cmd.ZoneId)
        err == assertZoneIdMatch(boundZoneId, zoneId)
    IN  IF zoneId = <<>>
        THEN [p EXCEPT !.cmd.ZoneId = zoneId,
                       !.ret = ValidateError("ZoneId must not be blank"),
                       !.pc = "unlock"]
        ELSE IF err # NilErr
        THEN [p EXCEPT !.cmd.ZoneId = zoneId, !.ret = err, !.pc = "unlock"]
        ELSE [p EXCEPT !.cmd.ZoneId = zoneId, !.pc = "backup"]

AssertZone(p) ==
    /\ At(p, "assert")
    /\ Becomes(p, IF p.op = "update" THEN UpdateAssertZone(p) ELSE ResetAssertZone(p))
    /\ UNCHANGED <<fsutilVars, listening, configFile, disk, boundZoneId, lastUpdateTs, runtimeLock, clock, rc,
                   ioFaults>>

\* reloadErr = cfgFileUtil.backupConfigFile(); a failure returns it.
BackupStep(p, ioErr) ==
    LET r == backupConfigFile(disk, configFile, ioErr)
    IN  /\ disk' = r.disk
        /\ Becomes(p, IF r.err # NilErr
                      THEN [p EXCEPT !.reloadErr = r.err, !.ret = r.err,
                                     !.pc = Deferred(r.err)]
                      ELSE [p EXCEPT !.reloadErr = r.err, !.pc = "write"])

Backup(p) ==
    /\ At(p, "backup")
    /\ \E ioErr \in IoOutcomes : BackupStep(p, ioErr) /\ Fault(ioErr)
    /\ UNCHANGED <<fsutilVars, listening, configFile, boundZoneId, lastUpdateTs, runtimeLock, clock, rc>>

\* Faulty variant: the text is trimmed before it is written
NewContentTrimmed(p) == IF p.op = "update" THEN TrimSpace(p.cmd.Yaml) ELSE <<>>

\* what the call writes: cmd.Yaml, or "" for a reset
NewContent(p) == IF p.op = "update" THEN p.cmd.Yaml ELSE <<>>

\* Faulty variant: the call goes on to the handshake without writing the file
WriteStepSkipped(p, ioErr, written) ==
    /\ disk' = disk
    /\ Becomes(p, [p EXCEPT !.pc = "send"])

\* reloadErr = cfgFileUtil.writeConfigFile(...); a failure returns it.
WriteStep(p, ioErr, written) ==
    LET r == writeConfigFile(disk, configFile, NewContent(p), ioErr, written)
    IN  /\ disk' = r.disk
        /\ Becomes(p, IF r.err # NilErr
                      THEN [p EXCEPT !.reloadErr = r.err, !.ret = r.err,
                                     !.pc = Deferred(r.err)]
                      ELSE [p EXCEPT !.reloadErr = r.err, !.pc = "send"])

Write(p) ==
    /\ At(p, "write")
    /\ \E ioErr \in IoOutcomes :
          /\ Fault(ioErr)
          /\ IF ioErr
             THEN \E written \in -1..(Len(NewContent(p)) - 1) : WriteStep(p, TRUE, written)
             ELSE WriteStep(p, FALSE, 0)
    /\ UNCHANGED <<fsutilVars, listening, configFile, boundZoneId, lastUpdateTs, runtimeLock, clock, rc>>

\* Faulty variant: the send completes with nobody receiving
DoReloadSendUnreceived(p) ==
    /\ At(p, "send")
    /\ rc' = rc + 1
    /\ Becomes(p, [p EXCEPT !.pc = "recv"])
    /\ UNCHANGED <<fsutilVars, listening, configFile, disk, boundZoneId, lastUpdateTs, runtimeLock, clock,
                   ioFaults>>

\* Faulty variant: the reply channel is handed over twice
DoReloadSendTwice(p) ==
    /\ At(p, "send")
    /\ listening
    /\ rc' = rc + 2
    /\ Becomes(p, [p EXCEPT !.pc = "recv"])
    /\ UNCHANGED <<fsutilVars, listening, configFile, disk, boundZoneId, lastUpdateTs, runtimeLock,
                   clock, ioFaults>>

\* doReload: rc := make(chan error); reloadCh <- rc.  reloadCh is unbuffered:
\* the send completes when the collaborator receives rc.
DoReloadSend(p) ==
    /\ At(p, "send")
    /\ listening
    /\ rc' = rc + 1
    /\ Becomes(p, [p EXCEPT !.pc = "recv"])
    /\ UNCHANGED <<fsutilVars, listening, configFile, disk, boundZoneId, lastUpdateTs, runtimeLock, clock,
                   ioFaults>>

\* The caller's ctx becomes done (the request is cancelled or times out) while
\* the call waits in doReload.  No statement of the service reads ctx; the
\* frame records it for as long as the call waits.
CtxDone(p) ==
    /\ ~Observing
    /\ p.pc \in {"send", "recv"}
    /\ ~p.ctxDone
    /\ Becomes(p, [p EXCEPT !.ctxDone = TRUE])
    /\ UNCHANGED <<fsutilVars, listening, configFile, disk, boundZoneId, lastUpdateTs, runtimeLock,
                   clock, rc, ioFaults>>

\* Faulty variant: a closed reply channel is taken for a failed reload
DoReloadRecvStepClosedFails(p, reply) ==
    LET err == IF reply = "nil" THEN NilErr ELSE NewError("on purpose")
        reloadErr == Wrapf(err, "sidecar failed to reload config")
    IN  [p EXCEPT !.reply = reply, !.reloadErr = reloadErr, !.ret = reloadErr,
                  !.ctxDone = FALSE, !.pc = Deferred(reloadErr)]

\* doReload: err := <-rc, wrapped when not nil; then `return reloadErr`.
\* The collaborator sends nil or an error on rc, or closes rc (a receive from
\* a closed channel yields the zero value, nil).
DoReloadRecvStep(p, reply) ==
    LET err == IF reply = "err" THEN NewError("on purpose") ELSE NilErr
        reloadErr == Wrapf(err, "sidecar failed to reload config")
    IN  [p EXCEPT !.reply = reply, !.reloadErr = reloadErr, !.ret = reloadErr,
                  !.ctxDone = FALSE, !.pc = Deferred(reloadErr)]

DoReloadRecv(p) ==
    /\ At(p, "recv")
    /\ rc > 0
    /\ rc' = rc - 1
    /\ \E reply \in {"nil", "err", "closed"} : Becomes(p, DoReloadRecvStep(p, reply))
    /\ UNCHANGED <<fsutilVars, listening, configFile, disk, boundZoneId, lastUpdateTs, runtimeLock, clock,
                   ioFaults>>

\* ---------------------------------------------------- the deferred function
\* Faulty variant: the time written is the last reading, not a new one
SetLastUpdateTsStale(p) ==
    /\ clock' = clock
    /\ lastUpdateTs' = clock

\* s.lastUpdateTs = time.Now() (update) or time.Time{} (reset)
SetLastUpdateTsStep(p) ==
    IF p.op = "update"
    THEN /\ clock' = clock + 1
         /\ lastUpdateTs' = clock + 1
    ELSE /\ clock' = clock
         /\ lastUpdateTs' = 0

DeferredSetLastUpdateTs(p) ==
    /\ At(p, "setTs")
    /\ SetLastUpdateTsStep(p)
    /\ Becomes(p, [p EXCEPT !.pc = "bind"])
    /\ UNCHANGED <<fsutilVars, listening, configFile, disk, boundZoneId, runtimeLock, rc, ioFaults>>

\* Faulty variant: the binding is not written
bindZoneIdDropped(zoneId) == boundZoneId' = boundZoneId

\* bindZoneId
bindZoneId(zoneId) == boundZoneId' = zoneId

\* s.bindZoneId(cmd.ZoneId) (update) or s.bindZoneId("") (reset)
DeferredBindZoneId(p) ==
    /\ At(p, "bind")
    /\ bindZoneId(IF p.op = "update" THEN p.cmd.ZoneId ELSE <<>>)
    /\ Becomes(p, [p EXCEPT !.pc = "clean"])
    /\ UNCHANGED <<fsutilVars, listening, configFile, disk, lastUpdateTs, runtimeLock, clock, rc, ioFaults>>

\* s.printErr(cfgFileUtil.cleanBackupConfigFile())
CleanBackupStep(p, ioErr) ==
    LET r == cleanBackupConfigFile(disk, configFile, ioErr)
    IN  /\ disk' = r.disk
        /\ Becomes(p, [printErr(p, r.err) EXCEPT !.pc = "unlock"])

DeferredCleanBackup(p) ==
    /\ At(p, "clean")
    /\ \E ioErr \in IoOutcomes : CleanBackupStep(p, ioErr) /\ Fault(ioErr)
    /\ UNCHANGED <<fsutilVars, listening, configFile, boundZoneId, lastUpdateTs, runtimeLock, clock, rc>>

\* s.printErr(cfgFileUtil.restoreConfigFile())
RestoreStep(p, ioErr) ==
    LET r == restoreConfigFile(disk, configFile, ioErr)
    IN  /\ disk' = r.disk
        /\ Becomes(p, [printErr(p, r.err) EXCEPT !.pc = "unlock"])

DeferredRestore(p) ==
    /\ At(p, "restore")
    /\ \E ioErr \in IoOutcomes : RestoreStep(p, ioErr) /\ Fault(ioErr)
    /\ UNCHANGED <<fsutilVars, listening, configFile, boundZoneId, lastUpdateTs, runtimeLock, clock, rc>>

\* Faulty variant: the call returns without releasing the mutex
UnlockMissing(p) ==
    /\ At(p, "unlock")
    /\ runtimeLock' = runtimeLock
    /\ Becomes(p, [p EXCEPT !.pc = "done"])
    /\ UNCHANGED <<fsutilVars, listening, configFile, disk, boundZoneId, lastUpdateTs, clock, rc,
                   ioFaults>>

\* defer s.runtimeLock.Unlock(), and the call returns p.ret
Unlock(p) ==
    /\ At(p, "unlock")
    /\ runtimeLock' = FALSE
    /\ Becomes(p, [p EXCEPT !.pc = "done"])
    /\ UNCHANGED <<fsutilVars, listening, configFile, disk, boundZoneId, lastUpdateTs, clock, rc, ioFaults>>

\* The caller has the return value; its next call may start.
Return(p) ==
    /\ p.pc = "done"
    /\ Becomes(p, Idle)
    /\ UNCHANGED <<fsutilVars, listening, configFile, disk, boundZoneId, lastUpdateTs, runtimeLock, clock, rc,
                   ioFaults>>

Next ==
    \/ \E p \in Frames : UpdateConfigReload(p)
    \/ \E p \in Frames : ResetConfigReload(p)
    \/ \E p \in Frames : GetRuntimeInfo(p)
    \/ \E p \in Frames : Lock(p)
    \/ \E p \in Frames : ReadRuntimeInfo(p)
    \/ \E p \in Frames : AssertZone(p)
    \/ \E p \in Frames : Backup(p)
    \/ \E p \in Frames : Write(p)
    \/ \E p \in Frames : DoReloadSend(p)
    \/ \E p \in Frames : DoReloadRecv(p)
    \/ \E p \in Frames : CtxDone(p)
    \/ \E p \in Frames : DeferredSetLastUpdateTs(p)
    \/ \E p \in Frames : DeferredBindZoneId(p)
    \/ \E p \in Frames : DeferredCleanBackup(p)
    \/ \E p \in Frames : DeferredRestore(p)
    \/ \E p \in Frames : Unlock(p)
    \/ \E p \in Frames : Return(p)

Spec == Init /\ [][Next]_vars

\* a step of the call that holds the mutex
SectionStep(p) ==
    \/ ReadRuntimeInfo(p)
    \/ AssertZone(p)
    \/ Backup(p)
    \/ Write(p)
    \/ DoReloadSend(p)
    \/ DoReloadRecv(p)
    \/ DeferredSetLastUpdateTs(p)
    \/ DeferredBindZoneId(p)
    \/ DeferredCleanBackup(p)
    \/ DeferredRestore(p)
    \/ Unlock(p)

\* The Go scheduler runs every goroutine that can run, whatever the other
\* goroutines do: the call that holds the mutex takes its next step, also
\* when other callers keep making calls that return at once; a caller waiting
\* in Lock() gets the mutex when it keeps being released; a collaborator that
\* is listening receives rc and answers it; a caller takes the value its call
\* returned.  Nothing makes a caller start a call or cancel its ctx.
Fairness ==
    /\ SF_vars(\E p \in Frames : Lock(p))
    /\ SF_vars(\E p \in Frames : SectionStep(p))
    /\ WF_vars(\E p \in Frames : Return(p))

FairSpec == Spec /\ Fairness

\* ------------------------------------------------- two concurrent binders
\* Two callers have each made one UpdateConfigReload call, with valid commands
\* for two different zones, on an unbound service with a collaborator that
\* listens; the calls run from their Lock() on, and what each returned is
\* kept in log.
BinderYamls == {<<" ", "k">>, <<"k">>}

BinderInit ==
    /\ configFile = CfgPath
    /\ disk \in {[p \in Paths |-> IF p = CfgPath THEN f ELSE NoFile] :
                    f \in {NoFile, File(OldYaml)}}
    /\ boundZoneId = <<>>
    /\ lastUpdateTs = 0
    /\ runtimeLock = FALSE
    /\ clock = 0
    /\ \E y1 \in BinderYamls, y2 \in BinderYamls :
          procs = SetToBag({UpdateConfigReloadBegin(<<" ", "A">>, y1)})
                  (+) SetToBag({UpdateConfigReloadBegin(<<"B">>, y2)})
                  (+) (IF NumCallers > 2 THEN [p \in {Idle} |-> NumCallers - 2] ELSE EmptyBag)
    /\ rc = 0
    /\ ioFaults = 0
    /\ listening = TRUE
    /\ dir = [n \in DirNames |-> NoFile]
    /\ pattern = <<>>
    /\ log = <<>>

\* The caller has the return value, which is recorded.
ReturnRecorded(p) ==
    /\ p.pc = "done"
    /\ Becomes(p, Idle)
    /\ log' = Append(log, p)
    /\ UNCHANGED <<configFile, disk, boundZoneId, lastUpdateTs, runtimeLock, clock, rc,
                   ioFaults, listening, dir, pattern>>

BinderNext ==
    \/ \E p \in Frames : Lock(p)
    \/ \E p \in Frames : AssertZone(p)
    \/ \E p \in Frames : Backup(p)
    \/ \E p \in Frames : Write(p)
    \/ \E p \in Frames : DoReloadSend(p)
    \/ \E p \in Frames : DoReloadRecv(p)
    \/ \E p \in Frames : DeferredSetLastUpdateTs(p)
    \/ \E p \in Frames : DeferredBindZoneId(p)
    \/ \E p \in Frames : DeferredCleanBackup(p)
    \/ \E p \in Frames : DeferredRestore(p)
    \/ \E p \in Frames : Unlock(p)
    \/ \E p \in Frames : ReturnRecorded(p)

BinderSpec == BinderInit /\ [][BinderNext]_vars

\* ------------------------------------------------------ the file utilities
\* The functions of sidecar/utils/fs/util.go called one after the other on one
\* directory, by a single caller.  Every file holds its first name as its
\* content, so that a file that was moved or replaced is told from one that
\* was not.
DirInit ==
    /\ configFile = CfgPath
    /\ disk = [p \in Paths |-> NoFile]
    /\ boundZoneId = <<>>
    /\ lastUpdateTs = 0
    /\ runtimeLock = FALSE
    /\ clock = 0
    /\ procs = [p \in {Idle} |-> NumCallers]
    /\ rc = 0
    /\ ioFaults = 0
    /\ listening = FALSE
    /\ \E present \in SUBSET InitialNames :
          dir = [n \in DirNames |-> IF n \in present THEN File(n) ELSE NoFile]
    /\ pattern \in Patterns
    /\ log = <<>>

\* the system calls that may fail in one call: none, or the one made for one name
BadSets == {{}} \cup {{n} : n \in DirNames}

\* the call of fn with arg has returned r
Called(fn, arg, bad, r) ==
    /\ dir' = r.disk
    /\ log' = Append(log, [fn |-> fn, arg |-> arg, before |-> dir, err |-> r.err,
                           faulty |-> bad # {}])
    /\ UNCHANGED <<sidecarVars, pattern>>

CallBackupDirFiles ==
    /\ Len(log) < MaxDirCalls
    /\ \E bad \in BadSets :
          Called("BackupDirFiles", pattern, bad, BackupDirFiles(dir, pattern, bad))

CallRestoreDirFiles ==
    /\ Len(log) < MaxDirCalls
    /\ \E bad \in BadSets :
          Called("RestoreDirFiles", pattern, bad, RestoreDirFiles(dir, pattern, bad))

CallCleanBackupDirFiles ==
    /\ Len(log) < MaxDirCalls
    /\ \E bad \in BadSets :
          Called("CleanBackupDirFiles", pattern, bad, CleanBackupDirFiles(dir, pattern, bad))

CallBackupFile ==
    /\ Len(log) < MaxDirCalls
    /\ \E originFile \in BaseNames, ioErr \in BOOLEAN :
          Called("BackupFile", originFile, IF ioErr THEN {originFile} ELSE {},
                 BackupFile(dir, originFile, ioErr))

CallRestoreFile ==
    /\ Len(log) < MaxDirCalls
    /\ \E originFile \in BaseNames, ioErr \in BOOLEAN :
          Called("RestoreFile", originFile, IF ioErr THEN {originFile} ELSE {},
                 RestoreFile(dir, originFile, ioErr))

CallCleanBackupFile ==
    /\ Len(log) < MaxDirCalls
    /\ \E originFile \in BaseNames, ioErr \in BOOLEAN :
          Called("CleanBackupFile", originFile, IF ioErr THEN {originFile} ELSE {},
                 CleanBackupFile(dir, originFile, ioErr))

DirNext ==
    \/ CallBackupDirFiles
    \/ CallRestoreDirFiles
    \/ CallCleanBackupDirFiles
    \/ CallBackupFile
    \/ CallRestoreFile
    \/ CallCleanBackupFile

DirSpec == DirInit /\ [][DirNext]_vars

\* ============================================================== properties
\* The frames of returned calls, and of the update and reset calls that took
\* the lock.  A returned call is observed in the state in which it returned:
\* no step comes between Unlock and Return.
Done == {p \in Frames : p.pc = "done"}

Transactions == {p \in Frames : p.op \in {"update", "reset"} /\ p.pre.taken}

BackupPath == CfgPath \o backupSuffix

\* what a committed call leaves in RuntimeInfo
Committed(p) ==
    IF p.op = "update"
    THEN boundZoneId = p.cmd.ZoneId /\ lastUpdateTs # 0 /\ lastUpdateTs > p.pre.lastUpdateTs
    ELSE boundZoneId = <<>> /\ lastUpdateTs = 0

\* RuntimeInfo is as it was when the call took the lock
RuntimeInfoAsBefore(p) ==
    boundZoneId = p.pre.boundZoneId /\ lastUpdateTs = p.pre.lastUpdateTs

\* C1 (atomic commit): a returned update or reset call either returned nil with
\* the new content in the config file and the new values in RuntimeInfo, or
\* returned an error with the config file and RuntimeInfo as before the call.
\* Stated for the runs in which no file-system call fails with an I/O error.
\* The code breaks it: with no config file before the call there is nothing to
\* restore, and a failed reload leaves the rejected text at the config path.
C1_AtomicCommit ==
    \A p \in Done \cap Transactions :
        ioFaults = 0 =>
            \/ /\ p.ret = NilErr
               /\ disk[CfgPath] = File(NewContent(p))
               /\ Committed(p)
            \/ /\ p.ret # NilErr
               /\ disk[CfgPath] = p.pre.disk[CfgPath]
               /\ RuntimeInfoAsBefore(p)

\* C2 (rollback on reload failure): an update whose collaborator replied with
\* an error returns an error and leaves the config file (content or absence),
\* the absence of a .del file and RuntimeInfo as before the call.  Stated for
\* the runs in which no file-system call fails with an I/O error.  The code
\* breaks it when the config file was absent before the call.
C2_RollbackOnReloadFailure ==
    \A p \in Done :
        (p.op = "update" /\ p.reply = "err" /\ ioFaults = 0) =>
            /\ p.ret # NilErr
            /\ disk[CfgPath] = p.pre.disk[CfgPath]
            /\ ~disk[BackupPath].exists
            /\ RuntimeInfoAsBefore(p)

\* C3 (round trip, as claimed): an update whose collaborator replied nil
\* returns nil, the config file holds exactly the submitted yaml and
\* boundZoneId equals the submitted zoneId.  Fails for a zoneId with blanks
\* around it: Validate trims cmd.ZoneId before it is bound.
C3_RoundTripAsClaimed ==
    \A p \in Done :
        (p.op = "update" /\ p.reply = "nil") =>
            /\ p.ret = NilErr
            /\ disk[CfgPath] = File(p.submitted.Yaml)
            /\ boundZoneId = p.submitted.ZoneId

\* C3 (round trip, amended): an update whose collaborator replied nil returns
\* nil, the config file holds exactly the submitted yaml, and boundZoneId is
\* the submitted zoneId without the blanks around it.
C3_RoundTrip ==
    \A p \in Done :
        (p.op = "update" /\ p.reply = "nil") =>
            /\ p.ret = NilErr
            /\ disk[CfgPath] = File(p.submitted.Yaml)
            /\ boundZoneId = TrimSpace(p.submitted.ZoneId)

\* a successful update of a padded zone id whose yaml starts with a blank
C3_Witness ==
    \E p \in Done :
        /\ p.op = "update" /\ p.reply = "nil" /\ p.ret = NilErr
        /\ p.submitted.ZoneId = <<" ", "A">>
        /\ p.submitted.Yaml = <<" ", "k">>
        /\ disk[CfgPath] = File(<<" ", "k">>)

\* C4 (old-or-new visibility): while an update or reset call is between taking
\* the lock and returning, the config path holds either what it held before
\* the call or the complete new content, and is never missing or partly
\* written.  Stated for the runs in which no file-system call fails with an
\* I/O error.  The code breaks it: BackupFile renames the config file away
\* before the new one is written.
C4_OldOrNew ==
    \A p \in Transactions :
        ioFaults = 0 =>
            \/ disk[CfgPath] = p.pre.disk[CfgPath]
            \/ disk[CfgPath] = File(NewContent(p))

\* a text that is empty or made of white space only
IsBlank(s) == \A i \in 1..Len(s) : IsSpace(s[i])

\* a command Validate has to reject, and an update call that was given one
\* while the service has a config path
InvalidCmd(cmd) == IsBlank(cmd.ZoneId) \/ IsBlank(cmd.Yaml) \/ ParseConfig(cmd) # NilErr

RejectedUpdate(p) ==
    p.op = "update" /\ ~IsBlank(configFile) /\ InvalidCmd(p.submitted)

ZoneConflictRejected(p) ==
    /\ p.pc \in {"unlock", "done"}
    /\ p.ret.type = "ValidateError"
    /\ p.reply = "none"
    /\ rc = 0
    /\ disk = p.pre.disk
    /\ RuntimeInfoAsBefore(p)
    /\ p.pc = "done" => ~runtimeLock

\* C6 (zone conflict, as claimed): an update call that took the lock while the
\* coordinator was bound to a zone other than the submitted zoneId is rejected
\* with a validation error, without a file-system step or a handshake, the lock
\* released at return.  Fails for a submitted zoneId that differs from the
\* binding by the blanks around it only: that call is accepted.
C6_ZoneConflictAsClaimed ==
    \A p \in Transactions :
        (/\ p.op = "update"
         /\ p.pre.boundZoneId # <<>>
         /\ p.submitted.ZoneId # p.pre.boundZoneId
         /\ p.pc # "assert") => ZoneConflictRejected(p)

\* C6 (zone conflict, amended): an update call that took the lock while the
\* coordinator was bound to a zone other than the submitted zoneId without the
\* blanks around it is, once past the zone check, rejected with a validation
\* error: it takes no file-system step and no handshake, the files and
\* RuntimeInfo are as when it took the lock, and the lock is free at return.
C6_ZoneConflict ==
    \A p \in Transactions :
        (/\ p.op = "update"
         /\ p.pre.boundZoneId # <<>>
         /\ TrimSpace(p.submitted.ZoneId) # p.pre.boundZoneId
         /\ p.pc # "assert") => ZoneConflictRejected(p)

\* an update for zone B has returned from a coordinator bound to zone A
C6_Witness ==
    \E p \in Done :
        /\ p.op = "update"
        /\ p.pre.taken
        /\ p.pre.boundZoneId = <<"A">>
        /\ p.submitted.ZoneId = <<"B">>
        /\ p.ret.type = "ValidateError"
        /\ boundZoneId = <<"A">>

\* the step is the bindZoneId of a successful update / of a successful reset
BoundByUpdate ==
    \E p \in Frames :
        /\ p.op = "update" /\ p.pc = "bind" /\ p.reloadErr = NilErr /\ p.ret = NilErr
        /\ boundZoneId' = p.cmd.ZoneId

UnboundByReset ==
    \E p \in Frames :
        p.op = "reset" /\ p.pc = "bind" /\ p.reloadErr = NilErr /\ p.ret = NilErr

\* C7 (zone-binding state machine): boundZoneId starts as "", and every step
\* that changes it either takes it from "" to a non-empty zone, in the commit
\* of a successful update, or from a non-empty zone to "", in the commit of a
\* successful reset; it never goes from one zone to another.
C7_ZoneBinding ==
    /\ boundZoneId = <<>>
    /\ [][boundZoneId' # boundZoneId =>
            \/ boundZoneId = <<>> /\ boundZoneId' # <<>> /\ BoundByUpdate
            \/ boundZoneId # <<>> /\ boundZoneId' = <<>> /\ UnboundByReset]_vars

\* a successful reset has unbound the coordinator from zone A while an update
\* for zone B is waiting for the lock
C7_Witness ==
    /\ boundZoneId = <<>>
    /\ \E p \in Done :
          p.op = "reset" /\ p.ret = NilErr /\ p.pre.boundZoneId = <<"A">>
    /\ \E q \in Frames :
          q.op = "update" /\ q.pc = "lock" /\ q.cmd.ZoneId = <<"B">>

\* the frames inside the deferred commit
Committing == {p \in Frames : p.pc \in {"setTs", "bind", "clean"}}

\* C8 (RuntimeInfo is mutated only on full success): boundZoneId and
\* lastUpdateTs change only in steps of a call that holds the lock, is in its
\* deferred commit and returns nil; a call that is in its commit holds the
\* lock until both fields are written, so that no caller sees one of them
\* changed without the other; a returned call that took the lock left both
\* fields as they were if it returned an error, and both with the committed
\* values if it returned nil; a call that returned without taking the lock
\* returned an error.
C8_MutatedOnlyOnSuccess ==
    /\ [](\A p \in Committing : runtimeLock /\ p.reloadErr = NilErr /\ p.ret = NilErr)
    /\ [](\A p \in Done \cap Transactions :
            IF p.ret = NilErr THEN Committed(p) ELSE RuntimeInfoAsBefore(p))
    /\ [](\A p \in Done : (p.op \in {"update", "reset"} /\ ~p.pre.taken) => p.ret # NilErr)
    /\ [][(boundZoneId' # boundZoneId \/ lastUpdateTs' # lastUpdateTs) =>
            /\ runtimeLock /\ runtimeLock'
            /\ \E p \in Committing :
                  /\ p.pc \in {"setTs", "bind"}
                  /\ CopiesIn(p, procs') < CopiesIn(p, procs)]_vars

\* an update rejected by the collaborator has returned its error to a
\* coordinator that an earlier update had bound to zone B
C8_Witness ==
    \E p \in Done :
        /\ p.op = "update" /\ p.reply = "err" /\ p.ret # NilErr
        /\ p.pre.boundZoneId = <<"B">> /\ p.pre.lastUpdateTs = 1
        /\ boundZoneId = <<"B">> /\ lastUpdateTs = 1

\* C9 (the backup file is transient): whenever no update or reset call holds
\* the lock there is no .del file, whatever the outcome of the cleanBackup
\* step.  The code breaks it: an error of cleanBackupConfigFile or
\* restoreConfigFile is logged only, and the call returns with the .del file
\* in place.
C9_BackupTransient ==
    (\A p \in Transactions : p.pc = "done") => ~disk[BackupPath].exists

\* the reset call p was given the current binding and the collaborator
\* replied nil
ResetOfBinding(p) ==
    /\ p.op = "reset" /\ p.reply = "nil"
    /\ ~IsBlank(p.submitted.ZoneId)
    /\ p.submitted.ZoneId = p.pre.boundZoneId

\* an update with the command cmd, made now, passes Validate and the zone check
Accepted(cmd) ==
    LET q == UpdateConfigReloadBegin(cmd.ZoneId, cmd.Yaml)
    IN  q.pc = "lock" /\ UpdateAssertZone(q).pc = "backup"

\* C10 (reset on success): a reset call with the zoneId of the current
\* binding and a collaborator replying nil returns nil, leaves the config
\* file present and empty, boundZoneId "" and lastUpdateTs zero, no .del
\* file, and an update with any valid command is accepted after it.  The code
\* breaks the .del part: the error of cleanBackupConfigFile is logged only.
C10_ResetOnSuccess ==
    \A p \in Done :
        ResetOfBinding(p) =>
            /\ p.ret = NilErr
            /\ disk[CfgPath] = File(<<>>)
            /\ boundZoneId = <<>>
            /\ lastUpdateTs = 0
            /\ ~disk[BackupPath].exists
            /\ \A z \in ZoneIds, y \in Yamls :
                  ~InvalidCmd([ZoneId |-> z, Yaml |-> y]) =>
                      Accepted([ZoneId |-> z, Yaml |-> y])

\* what C11 promises of a reset call p that was given a blank zone id or met
\* another zone's binding
ResetRejected(p) ==
    /\ p.pc \in {"unlock", "done"}
    /\ p.ret.type = "ValidateError"
    /\ p.reply = "none"
    /\ rc = 0
    /\ disk = p.pre.disk
    /\ RuntimeInfoAsBefore(p)
    /\ p.pc = "done" => ~runtimeLock

\* C11 (reset is rejected without side effects, as claimed): a reset call that
\* took the lock with a blank zoneId, or while the coordinator was bound to a
\* zone other than the submitted zoneId, is rejected with a validation error,
\* without a file-system step or a handshake, the lock released at return.
\* Fails for a zoneId that differs from the binding by the blanks around it
\* only: ResetConfigReload trims it, and the reset goes through.
C11_ResetRejectedAsClaimed ==
    \A p \in Transactions :
        (/\ p.op = "reset"
         /\ p.pc # "assert"
         /\ \/ IsBlank(p.submitted.ZoneId)
            \/ p.pre.boundZoneId # <<>> /\ p.submitted.ZoneId # p.pre.boundZoneId)
        => ResetRejected(p)

\* C11 (reset is rejected without side effects, amended): a reset call that
\* took the lock with a blank zoneId, or while the coordinator was bound to a
\* zone other than the submitted zoneId without the blanks around it, is, once
\* past the zone check, rejected with a validation error: it takes no
\* file-system step and no handshake, the files and RuntimeInfo are as when it
\* took the lock, and the lock is free at return.
C11_ResetRejected ==
    \A p \in Transactions :
        (/\ p.op = "reset"
         /\ p.pc # "assert"
         /\ \/ IsBlank(p.submitted.ZoneId)
            \/ p.pre.boundZoneId # <<>> /\ TrimSpace(p.submitted.ZoneId) # p.pre.boundZoneId)
        => ResetRejected(p)

\* a reset for zone B has returned from a coordinator bound to zone A, the
\* config file of zone A in place
C11_Witness ==
    \E p \in Done :
        /\ p.op = "reset"
        /\ p.pre.taken
        /\ p.pre.boundZoneId = <<"A">>
        /\ p.submitted.ZoneId = <<"B">>
        /\ p.ret.type = "ValidateError"
        /\ boundZoneId = <<"A">>
        /\ disk[CfgPath] = File(<<" ", "k">>)

\* a call waits in doReload and its caller's ctx is done
WaitingCancelled == \E p \in Frames : p.pc \in {"send", "recv"} /\ p.ctxDone

\* C12 (cancellation is honoured during the handshake): a call whose ctx
\* becomes done while it waits to hand rc to the collaborator, or waits for
\* the reply, eventually stops waiting.  The code breaks it: doReload never
\* reads ctx, and with no collaborator receiving from reloadCh the call stays
\* in `reloadCh <- rc` for ever, the lock held and the file not restored.
C12_CancellationHonoured == WaitingCancelled ~> ~WaitingCancelled

\* the update and reset calls that are between Lock() and Unlock(): from the
\* zone check to the end of the deferred commit or rollback
InSection ==
    {p \in Frames : p.op \in {"update", "reset"} /\ p.pc \notin {"idle", "lock", "done"}}

\* the GetRuntimeInfo calls that are between Lock() and Unlock()
Reading == {p \in Frames : p.op = "get" /\ p.pc \in {"read", "unlock"}}

\* how many callers are in a frame of the set S
CallersIn(S) == BagCardinality([p \in S |-> CopiesIn(p, procs)])

\* C13 (transactions are strictly serialized): at most one update or reset
\* call at a time is between its zone check and the end of its commit or
\* rollback, and it holds the mutex for all of that time; no other call is at
\* its zone check, at a file-system step or in the handshake then, and no
\* GetRuntimeInfo reads meanwhile.
C13_Serialized ==
    /\ CallersIn(InSection) + CallersIn(Reading) <= 1
    /\ (InSection # {} \/ Reading # {}) => runtimeLock

\* an update is in the handshake while another update and nobody else waits
\* for the mutex
C13_Witness ==
    /\ \E p \in InSection : p.op = "update" /\ p.pc = "recv"
    /\ \E q \in Frames : q.op = "update" /\ q.pc = "lock" /\ q.cmd.ZoneId = <<"B">>
    /\ runtimeLock

\* The committed pair: what RuntimeInfo held when the transaction under way
\* took the mutex, or what it holds now when no transaction is under way.
CommittedPairs ==
    IF InSection = {}
    THEN {Runtimeinfo(boundZoneId, lastUpdateTs)}
    ELSE {Runtimeinfo(p.pre.boundZoneId, p.pre.lastUpdateTs) : p \in InSection}

\* C14 (snapshot consistency of reads): the pair a GetRuntimeInfo call has
\* copied, and returns, is the committed pair: the copy is made while no
\* update or reset call is between Lock() and Unlock(), it equals the two
\* fields as they are then, the two fields do not change until the call has
\* returned, and the pair is that of an unbound coordinator (no zone, zero
\* time) or of a bound one (a zone and the time of its last update), never
\* half of each.
C14_SnapshotConsistency ==
    \A p \in Frames :
        (p.op = "get" /\ p.pc \in {"unlock", "done"}) =>
            /\ InSection = {}
            /\ p.info \in CommittedPairs
            /\ p.info.Brand = brand
            /\ (p.info.ZoneId = <<>>) <=> (p.info.LastUpdateTs = 0)

\* a GetRuntimeInfo call has returned zone B and its update time while an
\* update for zone A waits for the mutex
C14_Witness ==
    /\ \E p \in Done :
          p.op = "get" /\ p.info = Runtimeinfo(<<"B">>, 1)
    /\ \E q \in Frames :
          q.op = "update" /\ q.pc = "lock" /\ q.cmd.ZoneId = <<"A">>

\* the errors a call gets from writeConfigFile and from doReload
WriteError == Wrapf(NewError("EIO"), "Write config file failed")

ReloadError == Wrapf(NewError("on purpose"), "sidecar failed to reload config")

\* C15 (the primary error is never masked): a returned update or reset call
\* whose writeConfigFile failed returns the write error, and one whose
\* collaborator replied with an error returns the wrapped reload error,
\* whether the restore that followed failed or not; a call whose collaborator
\* replied nil (or closed rc) returns nil whether cleanBackup failed or not.
\* The failure of the restore or of the cleanBackup is logged only.
C15_PrimaryErrorNotMasked ==
    \A p \in Done \cap Transactions :
        /\ p.reloadErr = WriteError => p.ret = WriteError
        /\ p.reply = "err" => p.ret = ReloadError
        /\ p.reply \in {"nil", "closed"} => p.ret = NilErr
        /\ p.warned => p.ret = p.reloadErr

\* a call has returned whose write failed and whose restore failed after it:
\* the old file is still in .del
C15_Witness ==
    \E p \in Done :
        /\ p.op = "update"
        /\ p.reloadErr = WriteError
        /\ p.warned
        /\ p.ret = WriteError
        /\ disk[BackupPath] = File(OldYaml)

\* the error a call gets from backupConfigFile
BackupError == Wrapf(NewError("EIO"), "Move file failed")

\* C16 (backup failure returns immediately): a returned update or reset call
\* whose backupConfigFile failed returns that error, has made no handshake,
\* and has left the config file and the .del file exactly as they were when it
\* took the lock.  The code breaks it: the deferred function is registered
\* before the backup, so the failed backup is followed by restoreConfigFile,
\* which moves a .del file left by an earlier call over the config file.
C16_BackupFailureReturns ==
    \A p \in Done \cap Transactions :
        p.reloadErr = BackupError =>
            /\ p.ret = BackupError
            /\ p.reply = "none"
            /\ disk = p.pre.disk

\* C17 (write failure path): a returned update or reset call whose
\* writeConfigFile failed, after a backup that succeeded and before a restore
\* that succeeded, returns the write error, has sent nothing to the
\* collaborator, and leaves RuntimeInfo and the content of the config file as
\* they were when it took the lock, and no .del file.  Stated for the runs in
\* which the write is the only file-system call that fails.  The code breaks
\* it: with no config file before the call the backup and the restore are both
\* no-ops, and what the failed write left at the config path stays there.
C17_WriteFailurePath ==
    \A p \in Done \cap Transactions :
        (p.reloadErr = WriteError /\ ~p.warned /\ ioFaults = 1) =>
            /\ p.ret = WriteError
            /\ p.reply = "none"
            /\ rc = 0
            /\ RuntimeInfoAsBefore(p)
            /\ disk[CfgPath] = p.pre.disk[CfgPath]
            /\ ~disk[BackupPath].exists

\* an update or reset call made on a service that has no config path
Unconfigured(p) == p.op \in {"update", "reset"} /\ IsBlank(configFile)

\* C18 (missing config path): when the configured path is empty or blank, an
\* update or reset call returns the configuration error at once: it is never
\* waiting for or holding the lock, its command is as it was submitted (not
\* validated, the zone id not trimmed), it has sent nothing to the
\* collaborator, and the step that makes the call leaves the files,
\* RuntimeInfo, the lock and the reload channel as they were, whoever holds
\* the lock.
C18_MissingConfigPath ==
    /\ [](\A p \in Frames :
            Unconfigured(p) =>
                /\ p.pc = "done"
                /\ p.ret = NewError("--custom.config.file not provided")
                /\ ~p.pre.taken
                /\ p.reply = "none"
                /\ p.cmd = p.submitted)
    /\ [][(\E p \in BagToSet(procs') :
              Unconfigured(p) /\ CopiesIn(p, procs') > CopiesIn(p, procs))
          => UNCHANGED <<disk, boundZoneId, lastUpdateTs, runtimeLock, rc, ioFaults>>]_vars

\* an update with a blank zone id and a yaml that does not parse has returned
\* the configuration error while a GetRuntimeInfo call holds the lock
C18_Witness ==
    /\ configFile = <<" ">>
    /\ runtimeLock
    /\ \E q \in Reading : q.pc = "read"
    /\ \E p \in Done :
          /\ p.op = "update"
          /\ p.submitted = [ZoneId |-> <<" ">>, Yaml |-> <<"!">>]
          /\ p.ret = NewError("--custom.config.file not provided")

\* how many callers of the bag b are at the statement label
CallersAt(b, label) ==
    LET S == {p \in BagToSet(b) : p.pc = label}
    IN  BagCardinality([p \in S |-> CopiesIn(p, b)])

\* a call waits in `reloadCh <- rc` and no collaborator receives from reloadCh
BlockedInSend == ~listening /\ CallersAt(procs, "send") > 0

\* C19 (blocking without a consumer): with no collaborator receiving from
\* reloadCh, a call that has reached the handshake stays in the send for
\* ever and keeps the lock: no step takes it out of the send, releases the
\* lock or lets a caller that waits for the lock leave its Lock(), so that
\* every other call under way is waiting for the lock, not yet made, or has
\* returned without needing it; the files stay in their in-transaction state,
\* the new content at the config path and, when the path held a file before
\* the call, its old content in .del; RuntimeInfo stays as it was.
C19_BlockedWithoutConsumer ==
    /\ [](BlockedInSend =>
            /\ runtimeLock
            /\ rc = 0
            /\ \A q \in Frames : q.pc \in {"idle", "lock", "send", "done"}
            /\ \A p \in Frames :
                  p.pc = "send" =>
                      /\ disk[CfgPath] = File(NewContent(p))
                      /\ p.pre.disk[CfgPath].exists => disk[BackupPath] = p.pre.disk[CfgPath]
                      /\ RuntimeInfoAsBefore(p))
    /\ [][BlockedInSend =>
            /\ CallersAt(procs', "send") = CallersAt(procs, "send")
            /\ CallersAt(procs', "lock") >= CallersAt(procs, "lock")
            /\ runtimeLock'
            /\ UNCHANGED <<disk, boundZoneId, lastUpdateTs, rc>>]_vars

\* an update is blocked in the send, the old file in .del, and the other
\* caller's GetRuntimeInfo waits for the lock
C19_Witness ==
    /\ BlockedInSend
    /\ \E p \in Frames : p.op = "update" /\ p.pc = "send"
    /\ \E q \in Frames : q.op = "get" /\ q.pc = "lock"
    /\ disk[CfgPath] = File(<<" ", "k">>)
    /\ disk[BackupPath] = File(OldYaml)

\* C20 (lastUpdateTs advances on success): after an update call that returned
\* nil lastUpdateTs is not zero and is later than it was when the call took
\* the lock; after an update or reset call that took the lock and returned an
\* error it is what it was then; and a step changes lastUpdateTs only in the
\* commit of a call that returns nil, an update moving it forward to a time
\* that is not zero, a reset moving it to zero, so that a call returning an
\* error, with or without the lock, never changes it.
C20_LastUpdateTsAdvances ==
    /\ [](\A p \in Done :
            /\ (p.op = "update" /\ p.ret = NilErr) =>
                  lastUpdateTs # 0 /\ lastUpdateTs > p.pre.lastUpdateTs
            /\ (p.pre.taken /\ p.ret # NilErr) => lastUpdateTs = p.pre.lastUpdateTs)
    /\ [][lastUpdateTs' # lastUpdateTs =>
            \E p \in Frames :
                /\ p.pc = "setTs" /\ p.ret = NilErr
                /\ CopiesIn(p, procs') < CopiesIn(p, procs)
                /\ IF p.op = "update"
                   THEN lastUpdateTs' > lastUpdateTs /\ lastUpdateTs' # 0
                   ELSE lastUpdateTs' = 0]_vars

\* a second successful update has returned: the time went from 1 to 2
C20_Witness ==
    \E p \in Done :
        /\ p.op = "update" /\ p.ret = NilErr
        /\ p.pre.lastUpdateTs = 1
        /\ lastUpdateTs = 2

\* a name that ends in ".del"
IsBackupName(n) == n # <<>> /\ <<n[Len(n)]>> = backupSuffix

\* the directory as call i of the log left it
DirAfter(i) == IF i = Len(log) THEN dir ELSE log[i + 1].before

\* the calls i such that call i is BackupDirFiles and call i + 1 is
\* RestoreDirFiles, both with the pattern, no system call of either failing
RoundTrips ==
    {i \in 1..(Len(log) - 1) :
        /\ log[i].fn = "BackupDirFiles" /\ ~log[i].faulty
        /\ log[i + 1].fn = "RestoreDirFiles" /\ ~log[i + 1].faulty}

\* the files that were in the directory before call i and do not match the
\* pattern are where they were, with their content, after call i and after
\* call i + 1
UnmatchedKept(i) ==
    \A n \in DirNames :
        (log[i].before[n].exists /\ (BadPattern(pattern) \/ ~Match(pattern, n)))
            => /\ DirAfter(i)[n] = log[i].before[n]
               /\ DirAfter(i + 1)[n] = log[i].before[n]

RoundTripHolds(i) ==
    /\ log[i].err = NilErr
    /\ log[i + 1].err = NilErr
    /\ DirAfter(i + 1) = log[i].before
    /\ \A n \in DirNames : DirAfter(i + 1)[n].exists => ~IsBackupName(n)
    /\ UnmatchedKept(i)

\* no file of the directory d has a name that ends in ".del"
NoBackupNames(d) == \A n \in DirNames : d[n].exists => ~IsBackupName(n)

\* C21 (backup/restore round trip on a directory, as claimed): for every set
\* of files and every pattern, BackupDirFiles followed by RestoreDirFiles with
\* the same pattern returns no error both times and leaves the directory as
\* it was, with no ".del" file, the files that do not match the pattern left
\* alone by both calls.  Fails for a malformed pattern, which both calls
\* answer with an error, and for a directory that holds a ".del" file before
\* the backup: the backup overwrites it, or the restore renames it.
C21_DirRoundTripAsClaimed == \A i \in RoundTrips : RoundTripHolds(i)

\* C21 (backup/restore round trip on a directory, amended): for every set of
\* files none of which has a name ending in ".del" and every well-formed
\* pattern, BackupDirFiles followed by RestoreDirFiles with the same pattern
\* returns no error both times and leaves the directory as it was: every
\* matched file is back under its name with its content, no ".del" file
\* remains, and the files that do not match the pattern are left alone by
\* both calls.
C21_DirRoundTrip ==
    \A i \in RoundTrips :
        (NoBackupNames(log[i].before) /\ ~BadPattern(pattern)) => RoundTripHolds(i)

\* "a" was backed up as "a.del" and restored under the pattern "a*", while
\* "b" stayed where it was
C21_Witness ==
    /\ pattern = <<"a", "*">>
    /\ 1 \in RoundTrips
    /\ log[1].before[<<"a">>] = File(<<"a">>)
    /\ log[1].before[<<"b">>] = File(<<"b">>)
    /\ NoBackupNames(log[1].before)
    /\ log[2].before[<<"a">>] = NoFile
    /\ log[2].before[<<"a", ".del">>] = File(<<"a">>)
    /\ dir = log[1].before

\* the calls of RestoreFile and CleanBackupFile in the log
SingleFileCalls == {i \in 1..Len(log) : log[i].fn \in {"RestoreFile", "CleanBackupFile"}}

\* call i returned nil and changed no file
WasNoOp(i) == log[i].err = NilErr /\ DirAfter(i) = log[i].before

\* C22 (restore and cleanBackup are idempotent no-ops without a backup): a
\* call of RestoreFile(path) or CleanBackupFile(path) made when <path>.del does
\* not exist returns nil and changes no file; so does a call of either made
\* right after a call of either for the same path that returned nil; and
\* CleanBackupFile leaves the file at <path> as it is, whether it fails or
\* not.  Stated for the calls whose system call does not fail for another
\* reason than the missing file.
C22_IdempotentNoOps ==
    \A i \in SingleFileCalls :
        /\ (~log[i].faulty /\ ~log[i].before[log[i].arg \o backupSuffix].exists)
              => WasNoOp(i)
        /\ (/\ ~log[i].faulty
            /\ (i - 1) \in SingleFileCalls
            /\ log[i - 1].arg = log[i].arg
            /\ log[i - 1].err = NilErr) => WasNoOp(i)
        /\ log[i].fn = "CleanBackupFile"
              => DirAfter(i)[log[i].arg] = log[i].before[log[i].arg]

\* RestoreFile("a") has moved "a.del" to "a", and a second RestoreFile("a")
\* has returned nil with "a" as the first call left it
C22_Witness ==
    /\ Len(log) = 2
    /\ log[1].fn = "RestoreFile" /\ log[1].arg = <<"a">> /\ log[1].err = NilErr
    /\ log[1].before[<<"a", ".del">>].exists
    /\ log[2].fn = "RestoreFile" /\ log[2].arg = <<"a">> /\ log[2].err = NilErr
    /\ dir = log[2].before
    /\ dir[<<"a">>] = File(<<"a", ".del">>)
    /\ ~dir[<<"a", ".del">>].exists

\* the step takes a caller from the frame p to the frame q
Moves(p, q) ==
    /\ CopiesIn(p, procs') < CopiesIn(p, procs)
    /\ CopiesIn(q, procs') > CopiesIn(q, procs)

\* the statements that may come right after the statement at pc, in the order
\* zone check, backup, write, send, receipt, commit or rollback, unlock
Successors(pc) ==
    CASE pc = "assert" -> {"backup", "unlock"}
      [] pc = "backup" -> {"write", "restore"}
      [] pc = "write" -> {"send", "restore"}
      [] pc = "send" -> {"send", "recv"}
      [] pc = "recv" -> {"recv", "setTs", "restore"}
      [] pc = "setTs" -> {"bind"}
      [] pc = "bind" -> {"clean"}
      [] pc = "clean" -> {"unlock"}
      [] pc = "restore" -> {"unlock"}
      [] pc = "unlock" -> {"done"}
      [] pc = "lock" -> {"assert"}
      [] OTHER -> {"idle"}

\* what the collaborator finds when it has rc of the call p: the complete new
\* content at the config path, the old values in RuntimeInfo
ReadyForReload(p) ==
    /\ disk[CfgPath] = File(IF p.op = "update" THEN p.submitted.Yaml ELSE <<>>)
    /\ p.reloadErr = NilErr
    /\ RuntimeInfoAsBefore(p)

\* C23 (handshake ordering): within one update or reset call the steps come
\* in the order backup, write, send of rc, receipt of the reply, then
\* cleanBackup (after the commit of RuntimeInfo) or restore, a failed step
\* going straight to the restore; the step in which the collaborator receives
\* rc is made by a call at its send, with the complete new content (the
\* submitted yaml, or nothing for a reset) at the config path and RuntimeInfo
\* as it was when the call took the lock, and both stay so while the call
\* waits for the reply.
C23_HandshakeOrdering ==
    /\ [][\A p \in Frames, q \in BagToSet(procs') :
            (Moves(p, q) /\ p.op \in {"update", "reset"}) => q.pc \in Successors(p.pc)]_vars
    /\ [][rc' > rc =>
            \E p \in Frames, q \in BagToSet(procs') :
                /\ Moves(p, q)
                /\ p.pc = "send" /\ q.pc = "recv"
                /\ ReadyForReload(p)
                /\ UNCHANGED <<disk, boundZoneId, lastUpdateTs>>]_vars
    /\ [](\A p \in Frames : p.pc = "recv" => rc = 1 /\ ReadyForReload(p))

\* a reset of zone B waits for the reply: the config file is empty, the yaml of
\* zone B is in .del, and RuntimeInfo still has zone B and its update time
C23_Witness ==
    /\ \E p \in Frames : p.op = "reset" /\ p.pc = "recv" /\ p.cmd.ZoneId = <<"B">>
    /\ rc = 1
    /\ disk[CfgPath] = File(<<>>)
    /\ disk[BackupPath] = File(<<" ", "k">>)
    /\ boundZoneId = <<"B">>
    /\ lastUpdateTs = 1

\* the call p got past the zone check: it was not rejected there
PastZoneCheck(p) == p.pre.taken /\ p.pc # "assert" /\ p.ret.type # "ValidateError"

\* the frames inside the deferred function
InDeferred == {p \in Frames : p.pc \in {"setTs", "bind", "clean", "restore"}}

\* C24 (rollback or cleanup happens before the lock is released): a call in
\* its deferred commit or rollback holds the lock; a call that got past the
\* zone check and is at its Unlock() or has returned has run the commit of
\* RuntimeInfo and cleanBackup if it returns nil, and restore if it returns an
\* error; and when that cleanBackup or restore succeeded, the files are those
\* of a finished transaction: no .del file, and at the config path the new
\* content after a success and what was there before the call after a
\* failure.  The code breaks the last part: with no config file before the
\* call the backup moved nothing aside, the restore succeeds as a no-op, and
\* the content the collaborator rejected stays at the config path for the
\* next caller.
C24_RollbackBeforeUnlock ==
    /\ \A p \in InDeferred : runtimeLock
    /\ \A p \in Transactions :
          (PastZoneCheck(p) /\ p.pc \in {"unlock", "done"}) =>
              /\ p.pc = "unlock" => runtimeLock
              /\ IF p.ret = NilErr THEN Committed(p) ELSE RuntimeInfoAsBefore(p)
              /\ ~p.warned =>
                    /\ ~disk[BackupPath].exists
                    /\ disk[CfgPath] =
                          IF p.ret = NilErr THEN File(NewContent(p)) ELSE p.pre.disk[CfgPath]

\* the requests outstanding: calls that are sending rc, and calls whose rc the
\* collaborator has and has not answered
Outstanding == CallersAt(procs, "send") + CallersAt(procs, "recv")

\* C25 (one handshake request at a time): at most one call at a time is
\* sending its reply channel or waiting for the reply, and it holds the lock;
\* the collaborator has exactly the reply channels of the calls that wait, so
\* never more than one; a call hands over one reply channel, at its send,
\* when the collaborator has none and the call has had no reply yet; and a
\* reply is consumed by the one call that waits, which then leaves the
\* handshake for its commit or rollback.
C25_OneRequestAtATime ==
    /\ [](Outstanding <= 1)
    /\ [](Outstanding = 1 => runtimeLock)
    /\ [](rc = CallersAt(procs, "recv"))
    /\ [][rc' # rc =>
            \E p \in Frames, q \in BagToSet(procs') :
                /\ Moves(p, q)
                /\ \/ /\ rc = 0 /\ rc' = 1
                      /\ p.pc = "send" /\ q.pc = "recv"
                      /\ p.reply = "none" /\ q.reply = "none"
                   \/ /\ rc = 1 /\ rc' = 0
                      /\ p.pc = "recv" /\ q.pc \in {"setTs", "restore"}
                      /\ p.reply = "none" /\ q.reply # "none"]_vars

\* the collaborator has the reply channel of an update for zone A, and an
\* update for zone B waits for the lock
C25_Witness ==
    /\ rc = 1
    /\ \E p \in Frames : p.op = "update" /\ p.pc = "recv" /\ p.cmd.ZoneId = <<"A">>
    /\ \E q \in Frames : q.op = "update" /\ q.pc = "lock" /\ q.cmd.ZoneId = <<"B">>

\* the rules a command violates, one entry per rule, in the order of the rules
Violations(cmd) ==
    (IF IsBlank(cmd.ZoneId) THEN <<"ZoneId must not be blank">> ELSE <<>>)
    \o (IF IsBlank(cmd.Yaml) THEN <<"Yaml must not be blank">> ELSE <<>>)
    \o (IF \E i \in 1..Len(cmd.Yaml) : cmd.Yaml[i] = "!" THEN <<"Invalid Yaml">> ELSE <<>>)

Quiet == \A p \in Frames : p.pc \in {"idle", "done"}

ZoneMismatch == ValidateError("bound zoneId mismatches command zoneId")

\* the call recorded as log[w] won and the one recorded as log[l] lost
WonAndLost(w, l) ==
    /\ log[w].ret = NilErr
    /\ log[w].reply = "nil"
    /\ boundZoneId = TrimSpace(log[w].submitted.ZoneId)
    /\ lastUpdateTs # 0
    /\ disk[CfgPath] = File(log[w].submitted.Yaml)
    /\ log[l].ret = ZoneMismatch
    /\ log[l].reply = "none"
    /\ log[l].reloadErr = NilErr
    /\ log[l].pre.boundZoneId = boundZoneId
    /\ log[l].pre.disk = disk

\* C28 (only one concurrent binder wins): when the two update calls for two
\* zones, made on an unbound service, have both returned, the collaborator
\* having answered nil to every request and no file-system call having
\* failed, one of them returned nil and the other the zone-mismatch
\* validation error; boundZoneId is the winner's zone id and the config file
\* holds the winner's yaml; the loser made no handshake and the files are as
\* they were when it took the lock.
C28_OneBinderWins ==
    (/\ Len(log) = 2
     /\ ioFaults = 0
     /\ \A i \in 1..2 : log[i].reply \in {"none", "nil"})
    => (WonAndLost(1, 2) \/ WonAndLost(2, 1))

\* the update for zone B with the yaml "k" won against the update for zone A
\* with the yaml " k", on a service that had a config file
C28_Witness ==
    /\ Len(log) = 2
    /\ ioFaults = 0
    /\ log[1].submitted = [ZoneId |-> <<"B">>, Yaml |-> <<"k">>]
    /\ log[1].ret = NilErr
    /\ log[2].submitted = [ZoneId |-> <<" ", "A">>, Yaml |-> <<" ", "k">>]
    /\ log[2].ret = ZoneMismatch
    /\ boundZoneId = <<"B">>
    /\ disk[CfgPath] = File(<<"k">>)
    /\ log[2].pre.disk[CfgPath] = File(<<"k">>)

\* the reset call p took the lock on an unbound service, with a zone id that
\* is not blank, and is past the zone check
ResetOfUnbound(p) ==
    /\ p.op = "reset" /\ p.pre.taken /\ p.pc # "assert"
    /\ p.pre.boundZoneId = <<>>
    /\ ~IsBlank(p.submitted.ZoneId)

\* C29 (reset on an unbound coordinator): a reset call with a zone id that is
\* not blank, made while boundZoneId is "", is not rejected at the zone check
\* and runs the protocol: unless its backup or its write failed it makes the
\* handshake, with an empty file at the config path; and when the
\* collaborator replied nil it returns nil, the config file is empty and
\* RuntimeInfo is still that of an unbound service: zone "", time zero.
C29_ResetOnUnbound ==
    \A p \in Frames :
        ResetOfUnbound(p) =>
            /\ p.ret.type # "ValidateError"
            /\ p.pc \in {"send", "recv"} => disk[CfgPath] = File(<<>>)
            /\ (p.pc \in {"unlock", "done"} /\ p.reloadErr \notin {BackupError, WriteError})
                  => p.reply # "none"
            /\ (p.pc = "done" /\ p.reply = "nil") =>
                  /\ p.ret = NilErr
                  /\ disk[CfgPath] = File(<<>>)
                  /\ Runtimeinfo(boundZoneId, lastUpdateTs) = Runtimeinfo(<<>>, 0)

\* a reset for zone B has returned nil from a service that was not bound: the
\* old config file went to .del and was removed, the config file is empty
C29_Witness ==
    \E p \in Done :
        /\ ResetOfUnbound(p)
        /\ p.submitted.ZoneId = <<"B">>
        /\ p.reply = "nil" /\ p.ret = NilErr
        /\ p.pre.disk[CfgPath] = File(OldYaml)
        /\ disk[CfgPath] = File(<<>>)
        /\ ~disk[BackupPath].exists

\* C30 (a reply channel closed without a value counts as success): the call
\* whose reply channel the collaborator closed goes from the receipt into the
\* commit, as after a nil reply, and never into the restore; when it has
\* returned it has returned nil, RuntimeInfo has the committed values (the
\* zone and a new time for an update, no zone and time zero for a reset), the
\* config file holds the new content, and the .del file is gone unless
\* cleanBackup failed.
C30_ClosedReplyIsSuccess ==
    /\ [](\A p \in Frames :
            p.reply = "closed" =>
                /\ p.reloadErr = NilErr /\ p.ret = NilErr
                /\ p.pc \in {"setTs", "bind", "clean", "unlock", "done"}
                /\ p.pc = "done" =>
                      /\ Committed(p)
                      /\ disk[CfgPath] = File(NewContent(p))
                      /\ ~p.warned => ~disk[BackupPath].exists)
    /\ [][\A p \in Frames, q \in BagToSet(procs') :
            (Moves(p, q) /\ p.pc = "recv" /\ q.reply = "closed") =>
                /\ q.pc = "setTs"
                /\ [q EXCEPT !.reply = "nil"] = DoReloadRecvStep(p, "nil")]_vars

\* an update for zone B whose reply channel was closed has returned nil and
\* bound the service to zone B
C30_Witness ==
    \E p \in Done :
        /\ p.op = "update" /\ p.reply = "closed" /\ p.ret = NilErr
        /\ p.pre.boundZoneId = <<>>
        /\ boundZoneId = <<"B">> /\ lastUpdateTs = 1
        /\ disk[CfgPath] = File(<<" ", "k">>)
        /\ ~disk[BackupPath].exists

====
